---- MODULE Spec2Model ----
(***************************************************************************)
(* A model of the srp package (SRP-6a, RFC 5054): the Client and Server    *)
(* session objects, the Params they reference, and the random source they  *)
(* draw their ephemeral exponents from.                                    *)
(*                                                                         *)
(* Byte slices are modelled with their nil-ness: Nil is Go's nil slice,    *)
(* Slice(bs) a non-nil slice holding the bytes bs (each in 0..255).        *)
(* big.Int values are integers; the groups are scaled down to small safe   *)
(* primes so that the arithmetic stays inside TLC's integers.              *)
(***************************************************************************)
EXTENDS Integers, Sequences, FiniteSets, TLC

(***************************************************************************)
(* Bounds of the model.                                                    *)
(***************************************************************************)
\* The random source's outcomes include every value 0..MaxRand (and the
\* samples of RandomValues with non-zero high bytes).
MaxRand == 2
\* The number of reads of the random source in one behaviour.
MaxReads == 2

\* The session objects. A sequential behaviour (Spec) uses one of each; the
\* concurrent specification (SpecConc) runs all of them.
ClientIds == {"c1", "c2"}
ServerIds == {"s1", "s2"}
SeqClients == {"c1"}
SeqServers == {"s1"}

\* Pointers to Params objects; NullPtr is the params field of a session
\* object that has not been constructed.
ParamsPtrs == {"default", "custom"}
NullPtr == "null"

(***************************************************************************)
(* Byte slices and big.Int conversions.                                    *)
(***************************************************************************)
Nil == [set |-> FALSE, bytes |-> <<>>]
Slice(bs) == [set |-> TRUE, bytes |-> bs]

\* big.Int.SetBytes: the bytes as a big-endian unsigned integer.
RECURSIVE BytesToInt(_)
BytesToInt(bs) ==
    IF Len(bs) = 0 THEN 0
    ELSE 256 * BytesToInt(SubSeq(bs, 1, Len(bs) - 1)) + bs[Len(bs)]

\* big.Int.Bytes: the big-endian bytes of |n|, with no leading zero byte;
\* zero gives the empty (non-nil) slice.
RECURSIVE IntToBytes(_)
IntToBytes(n) ==
    IF n = 0 THEN <<>>
    ELSE Append(IntToBytes(n \div 256), n % 256)

\* big.Int.Exp(x, y, m) for y >= 0: x^y mod |m|, and x^y when m = 0.
RECURSIVE Exp(_, _, _)
Exp(x, y, m) ==
    IF m = 0 THEN (IF y = 0 THEN 1 ELSE x * Exp(x, y - 1, 0))
    ELSE IF y = 0 THEN 1 % m
    ELSE LET h == Exp(x, y \div 2, m)
             sq == (h * h) % m
         IN  IF y % 2 = 0 THEN sq ELSE (sq * (x % m)) % m

(***************************************************************************)
(* Params: the group (N, g) and the hash selection H.  The constructors    *)
(* of Params are not part of the sources at hand; the groups below stand   *)
(* for the RFC 5054 groups, scaled down to small safe primes.              *)
(***************************************************************************)
\* NewDefaultParams(): the default group and hash function.
NewDefaultParams == [N |-> 23, g |-> 5, H |-> "SHA3_256"]

\* NewCustomParams(N, g, h) / NewParams(bits, h): a caller-chosen group.
CustomParams == { [N |-> 263, g |-> 5, H |-> "SHA256"] }

(***************************************************************************)
(* The random source.                                                      *)
(***************************************************************************)
\* The integers the random bytes may spell.
RandomValues == (0 .. MaxRand) \cup {256, 16777215}

\* bs left-padded with zero bytes to n bytes.
RECURSIVE LeftPad(_, _)
LeftPad(n, bs) == IF Len(bs) >= n THEN bs ELSE LeftPad(n, <<0>> \o bs)

\* getRandomBytes(n): the outcomes of one read, n random bytes each.
getRandomBytes(n) ==
    { LeftPad(n, IntToBytes(k)) : k \in { r \in RandomValues : r < 256 ^ n } }

(***************************************************************************)
(* State.                                                                  *)
(***************************************************************************)
VARIABLES
    params,     \* the Params objects, by pointer
    clients,    \* the Client objects: params, I, P, a, A
    servers,    \* the Server objects: params, b, B, v, s, S
    pc,         \* each session's position: "idle", or inside a call
    ret,        \* each session's last returned values
    rand,       \* the random source: reads so far, and the last outcome
    inbox,      \* the (B, s) of the Server Hello relayed to each client
    zeroSeen,   \* the clients whose SessionKey ran on a B congruent to 0 mod N
    derived     \* per server, the values the documented path derives and
                \* the Server struct has no field for: A, K, M1, M2, state

vars == <<params, clients, servers, pc, ret, rand, inbox, zeroSeen, derived>>

Sessions == ClientIds \cup ServerIds

\* A slot whose object has not been constructed.
NoClient == [params |-> NullPtr, I |-> Nil, P |-> Nil, a |-> Nil, A |-> Nil]
NoServer == [params |-> NullPtr, b |-> Nil, B |-> Nil, v |-> Nil, s |-> Nil,
             S |-> Nil]

\* A server for which the documented path has derived nothing yet.
NoDerived == [A |-> Nil, K |-> Nil, M1 |-> Nil, M2 |-> Nil, state |-> "New"]

\* What a call returned: the operation, its results in order, and the error
\* it failed with. No operation of the package has an error result or
\* panics on a constructed session, so err is "none" after every call.
NoRet == [op |-> "none", out |-> <<>>, err |-> "none"]
Returned(op, out) == [op |-> op, out |-> out, err |-> "none"]

\* The strings callers pass, as their bytes ([]byte(str)).
Identities == { <<97, 108>> }
UserNames == Identities \cup { <<98>> }
Passwords == { <<112>>, <<113, 119>> }
Salts == { <<7>> }

(***************************************************************************)
(* The protocol's documented values (README, "The SRP Protocol").          *)
(***************************************************************************)
\* The hash function h applied to the bytes bs. A digest is modelled as
\* one byte: a fold over every input byte, seeded by the algorithm.
HashSeed(h) == CASE h = "SHA1" -> 1 [] h = "SHA256" -> 2 [] OTHER -> 3

RECURSIVE HashFold(_, _)
HashFold(acc, bs) ==
    IF Len(bs) = 0 THEN acc
    ELSE HashFold((acc * 31 + Head(bs) + 1) % 251, Tail(bs))

H(h, bs) == << HashFold(HashSeed(h), bs) >>

\* A PAD that pads nothing.
PAD_unpadded(p, bs) == bs

\* PAD: the bytes left-padded with zeros to the byte length of N.
PAD(p, bs) == LeftPad(Len(IntToBytes(p.N)), bs)

\* The hash input of k, and k := H(N | PAD(g)).
KInput(p) == IntToBytes(p.N) \o PAD(p, IntToBytes(p.g))
Multiplier(p) == BytesToInt(H(p.H, KInput(p)))

\* x computed without the salt: H(H(I | ":" | P)).
ComputeX_unsalted(p, s, I, P) == BytesToInt(H(p.H, H(p.H, I \o <<58>> \o P)))

\* x := H(s | H(I | ":" | P))
ComputeX(p, s, I, P) == BytesToInt(H(p.H, s \o H(p.H, I \o <<58>> \o P)))

\* v := g^x % N, as the bytes the server is given.
Verifier(p, s, I, P) == IntToBytes(Exp(p.g, ComputeX(p, s, I, P), p.N))

\* The verifiers a credential store may hold for the group p.
Verifiers(p) ==
    { Verifier(p, s, I, P) : s \in Salts, I \in Identities, P \in Passwords }

(***************************************************************************)
(* Client.                                                                 *)
(***************************************************************************)
\* NewClient(I, P): a client on the default params.
NewClient(c, I, P) ==
    /\ clients[c].params = NullPtr
    /\ clients' = [clients EXCEPT ![c] =
           [params |-> "default", I |-> Slice(I), P |-> Slice(P),
            a |-> Nil, A |-> Nil]]
    /\ UNCHANGED <<params, servers, pc, ret, rand, inbox, zeroSeen, derived>>

\* NewClientWithParams(p, I, P): a client on the params p points to.
NewClientWithParams(c, p, I, P) ==
    /\ clients[c].params = NullPtr
    /\ clients' = [clients EXCEPT ![c] =
           [params |-> p, I |-> Slice(I), P |-> Slice(P),
            a |-> Nil, A |-> Nil]]
    /\ UNCHANGED <<params, servers, pc, ret, rand, inbox, zeroSeen, derived>>

\* A faulty SetCredentials: the key exchange values are dropped with the
\* old credentials.
SetCredentials_reset(c, I, P) ==
    /\ clients[c].params # NullPtr
    /\ pc[c] = "idle"
    /\ clients' = [clients EXCEPT ![c].I = Slice(I), ![c].P = Slice(P),
                                  ![c].a = Nil, ![c].A = Nil]
    /\ ret' = [ret EXCEPT ![c] = Returned("SetCredentials", <<Slice(I)>>)]
    /\ UNCHANGED <<params, servers, pc, rand, inbox, zeroSeen, derived>>

\* SetCredentials(I, P): c.I = []byte(I); c.P = []byte(P); return c.I
SetCredentials(c, I, P) ==
    /\ clients[c].params # NullPtr
    /\ pc[c] = "idle"
    /\ clients' = [clients EXCEPT ![c].I = Slice(I), ![c].P = Slice(P)]
    /\ ret' = [ret EXCEPT ![c] = Returned("SetCredentials", <<Slice(I)>>)]
    /\ UNCHANGED <<params, servers, pc, rand, inbox, zeroSeen, derived>>

\* A faulty GenerateA: an exponent the session already holds is kept.
GenerateA_a_kept(cl, r) == IF cl.a.set THEN cl ELSE [cl EXCEPT !.a = Slice(r)]

\* GenerateA, first statement: c.a = getRandomBytes(3), r being the bytes read.
GenerateA_a(cl, r) == [cl EXCEPT !.a = Slice(r)]

\* A faulty GenerateA: base and exponent exchanged in the call of Exp.
GenerateA_A_swapped(cl, p) ==
    [cl EXCEPT !.A = Slice(IntToBytes(Exp(BytesToInt(cl.a.bytes), p.g, p.N)))]

\* A faulty GenerateA: g is multiplied by a where it is to be raised to it.
GenerateA_A_product(cl, p) ==
    [cl EXCEPT !.A = Slice(IntToBytes((p.g * BytesToInt(cl.a.bytes)) % p.N))]

\* A faulty GenerateA: the result is widened to the byte length of N.
GenerateA_A_padded(cl, p) ==
    [cl EXCEPT !.A = Slice(LeftPad(Len(IntToBytes(p.N)),
                         IntToBytes(Exp(p.g, BytesToInt(cl.a.bytes), p.N))))]

\* GenerateA, the rest: a := SetBytes(c.a); g := NewInt(c.params.g);
\* c.A = A.Exp(g, a, c.params.N).Bytes(), p being the Params c.params points to.
GenerateA_A(cl, p) ==
    [cl EXCEPT !.A = Slice(IntToBytes(Exp(p.g, BytesToInt(cl.a.bytes), p.N)))]

\* A faulty GenerateA: the modulus itself is the receiver of Exp
\* (c.params.N.Exp(g, a, c.params.N)), which overwrites it with the result.
GenerateA_params_aliased(ps, cl) ==
    [ps EXCEPT ![cl.params].N =
        Exp(ps[cl.params].g, BytesToInt(cl.a.bytes), ps[cl.params].N)]

\* The Params objects after GenerateA: the receiver of Exp is a new big.Int
\* (A := new(big.Int)), so the result lands in no Params field.
GenerateA_params(ps, cl) == ps

\* GenerateA up to the read of the random source.
GenerateA_draw(c) ==
    /\ clients[c].params # NullPtr
    /\ pc[c] = "idle"
    /\ rand.reads < MaxReads
    /\ \E r \in getRandomBytes(3) :
          /\ rand' = [reads |-> rand.reads + 1, out |-> r]
          /\ clients' = [clients EXCEPT ![c] = GenerateA_a(clients[c], r)]
    /\ pc' = [pc EXCEPT ![c] = "GenerateA"]
    /\ UNCHANGED <<params, servers, ret, inbox, zeroSeen, derived>>

\* GenerateA from the exponentiation to its return of c.A.
GenerateA_exp(c) ==
    /\ pc[c] = "GenerateA"
    /\ clients' = [clients EXCEPT ![c] =
                      GenerateA_A(clients[c], params[clients[c].params])]
    /\ params' = GenerateA_params(params, clients[c])
    /\ ret' = [ret EXCEPT ![c] = Returned("GenerateA", <<clients'[c].A>>)]
    /\ pc' = [pc EXCEPT ![c] = "idle"]
    /\ UNCHANGED <<servers, rand, inbox, zeroSeen, derived>>

\* What SessionKey returns: return nil, nil
SessionKey_result(cl) == <<Nil, Nil>>

\* A faulty SessionKey: the exponent is dropped once it has been used.
SessionKey_client_wiped(cl) == [cl EXCEPT !.a = Nil]

\* The client object after SessionKey: no field is assigned.
SessionKey_client(cl) == cl

\* The Server Hello the client c holds has a B congruent to 0 modulo N.
HoldsZeroPublicValue(c) ==
    /\ inbox[c].B.set
    /\ BytesToInt(inbox[c].B.bytes) % params[clients[c].params].N = 0

\* SessionKey(): the call reads neither the session nor the relayed values.
\* (zeroSeen only records on which relayed value the call was made.)
SessionKey(c) ==
    /\ clients[c].params # NullPtr
    /\ pc[c] = "idle"
    /\ clients' = [clients EXCEPT ![c] = SessionKey_client(clients[c])]
    /\ ret' = [ret EXCEPT ![c] =
                 Returned("SessionKey", SessionKey_result(clients[c]))]
    /\ zeroSeen' = IF HoldsZeroPublicValue(c) THEN zeroSeen \cup {c}
                                              ELSE zeroSeen
    /\ UNCHANGED <<params, servers, pc, rand, inbox, derived>>

(***************************************************************************)
(* Server.                                                                 *)
(***************************************************************************)
\* NewServer(v, s): a server on the default params.
NewServer(sv, v, s) ==
    /\ servers[sv].params = NullPtr
    /\ servers' = [servers EXCEPT ![sv] =
           [params |-> "default", b |-> Nil, B |-> Nil,
            v |-> Slice(v), s |-> Slice(s), S |-> Nil]]
    /\ UNCHANGED <<params, clients, pc, ret, rand, inbox, zeroSeen, derived>>

\* NewServerWithParams(p, v, s): a server on the params p points to.
NewServerWithParams(sv, p, v, s) ==
    /\ servers[sv].params = NullPtr
    /\ servers' = [servers EXCEPT ![sv] =
           [params |-> p, b |-> Nil, B |-> Nil,
            v |-> Slice(v), s |-> Slice(s), S |-> Nil]]
    /\ UNCHANGED <<params, clients, pc, ret, rand, inbox, zeroSeen, derived>>

\* A faulty GenerateB: the bytes read also replace the salt.
GenerateB_b_salted(srv, r) == [srv EXCEPT !.b = Slice(r), !.s = Slice(r)]

\* GenerateB, first statement: s.b = getRandomBytes(3), r being the bytes read.
GenerateB_b(srv, r) == [srv EXCEPT !.b = Slice(r)]

\* GenerateB, the rest: b := SetBytes(s.b); g := NewInt(s.params.g);
\* s.B = NewInt(0).Exp(g, b, s.params.N).Bytes(), p being the Params
\* s.params points to.
GenerateB_B(srv, p) ==
    [srv EXCEPT !.B = Slice(IntToBytes(Exp(p.g, BytesToInt(srv.b.bytes), p.N)))]

\* A faulty GenerateB: the modulus itself is the receiver of Exp.
GenerateB_params_aliased(ps, srv) ==
    [ps EXCEPT ![srv.params].N =
        Exp(ps[srv.params].g, BytesToInt(srv.b.bytes), ps[srv.params].N)]

\* The Params objects after GenerateB: the receiver of Exp is big.NewInt(0).
GenerateB_params(ps, srv) == ps

\* GenerateB up to the read of the random source.
GenerateB_draw(sv) ==
    /\ servers[sv].params # NullPtr
    /\ pc[sv] = "idle"
    /\ rand.reads < MaxReads
    /\ \E r \in getRandomBytes(3) :
          /\ rand' = [reads |-> rand.reads + 1, out |-> r]
          /\ servers' = [servers EXCEPT ![sv] = GenerateB_b(servers[sv], r)]
    /\ pc' = [pc EXCEPT ![sv] = "GenerateB"]
    /\ UNCHANGED <<params, clients, ret, inbox, zeroSeen, derived>>

\* GenerateB from the exponentiation to its return of s.B.
GenerateB_exp(sv) ==
    /\ pc[sv] = "GenerateB"
    /\ servers' = [servers EXCEPT ![sv] =
                      GenerateB_B(servers[sv], params[servers[sv].params])]
    /\ params' = GenerateB_params(params, servers[sv])
    /\ ret' = [ret EXCEPT ![sv] = Returned("GenerateB", <<servers'[sv].B>>)]
    /\ pc' = [pc EXCEPT ![sv] = "idle"]
    /\ UNCHANGED <<clients, rand, inbox, zeroSeen, derived>>

(***************************************************************************)
(* The transport between the two sides (the caller's part of the README's  *)
(* authentication path).                                                   *)
(***************************************************************************)
NoHello == [B |-> Nil, s |-> Nil]

\* Server Hello (s, B), relayed unchanged from the server sv to the client c.
RelayServerHello(c, sv) ==
    /\ clients[c].params # NullPtr
    /\ pc[sv] = "idle"
    /\ ret[sv].op = "GenerateB"
    /\ inbox' = [inbox EXCEPT ![c] = [B |-> ret[sv].out[1], s |-> servers[sv].s]]
    /\ UNCHANGED <<params, clients, servers, pc, ret, rand, zeroSeen, derived>>

\* A Server Hello whose B is a multiple of the client's N.
ForgeServerHello(c) ==
    /\ clients[c].params # NullPtr
    /\ \E m \in 0 .. 1, s \in Salts :
          inbox' = [inbox EXCEPT ![c] =
              [B |-> Slice(IntToBytes(m * params[clients[c].params].N)),
               s |-> Slice(s)]]
    /\ UNCHANGED <<params, clients, servers, pc, ret, rand, zeroSeen, derived>>

(***************************************************************************)
(* Specifications.                                                         *)
(***************************************************************************)
Init ==
    /\ params \in { [q \in ParamsPtrs |->
                       IF q = "default" THEN NewDefaultParams ELSE cp] :
                    cp \in CustomParams }
    /\ clients = [c \in ClientIds |-> NoClient]
    /\ servers = [sv \in ServerIds |-> NoServer]
    /\ pc = [x \in Sessions |-> "idle"]
    /\ ret = [x \in Sessions |-> NoRet]
    /\ rand = [reads |-> 0, out |-> <<>>]
    /\ inbox = [c \in ClientIds |-> NoHello]
    /\ zeroSeen = {}
    /\ derived = [sv \in ServerIds |-> NoDerived]

ClientStep(c) ==
    \/ \E I \in Identities, P \in Passwords : NewClient(c, I, P)
    \/ \E I \in Identities, P \in Passwords :
          NewClientWithParams(c, "custom", I, P)
    \/ \E I \in Identities, P \in Passwords : SetCredentials(c, I, P)
    \/ GenerateA_draw(c)
    \/ GenerateA_exp(c)
    \/ SessionKey(c)

ServerStep(sv) ==
    \/ \E v \in Verifiers(params["default"]), s \in Salts : NewServer(sv, v, s)
    \/ \E v \in Verifiers(params["custom"]), s \in Salts :
          NewServerWithParams(sv, "custom", v, s)
    \/ GenerateB_draw(sv)
    \/ GenerateB_exp(sv)

Transport(c, sv) ==
    \/ RelayServerHello(c, sv)
    \/ ForgeServerHello(c)

\* One client and one server, every operation.
Next ==
    \/ \E c \in SeqClients : ClientStep(c)
    \/ \E sv \in SeqServers : ServerStep(sv)
    \/ \E c \in SeqClients, sv \in SeqServers : Transport(c, sv)

Spec == Init /\ [][Next]_vars

(***************************************************************************)
(* The concurrent specification: two clients and two servers, constructed  *)
(* on the one shared Params object, whose GenerateA and GenerateB calls    *)
(* interleave statement by statement.                                      *)
(***************************************************************************)
InitConc ==
    /\ params \in { [q \in ParamsPtrs |->
                       IF q = "default" THEN NewDefaultParams ELSE cp] :
                    cp \in CustomParams }
    /\ clients \in [ClientIds ->
           { [params |-> "custom", I |-> Slice(I), P |-> Slice(P),
              a |-> Nil, A |-> Nil] : I \in Identities, P \in Passwords }]
    /\ servers \in [ServerIds ->
           { [params |-> "custom", b |-> Nil, B |-> Nil,
              v |-> Slice(v), s |-> Slice(s), S |-> Nil] :
             v \in { Verifier(cp, s0, I, <<112>>) :
                     cp \in CustomParams, s0 \in Salts, I \in Identities },
             s \in Salts }]
    /\ pc = [x \in Sessions |-> "idle"]
    /\ ret = [x \in Sessions |-> NoRet]
    /\ rand = [reads |-> 0, out |-> <<>>]
    /\ inbox = [c \in ClientIds |-> NoHello]
    /\ zeroSeen = {}
    /\ derived = [sv \in ServerIds |-> NoDerived]

NextConc ==
    \/ \E c \in ClientIds : GenerateA_draw(c)
    \/ \E c \in ClientIds : GenerateA_exp(c)
    \/ \E sv \in ServerIds : GenerateB_draw(sv)
    \/ \E sv \in ServerIds : GenerateB_exp(sv)

SpecConc == InitConc /\ [][NextConc]_vars

(***************************************************************************)
(* Properties.                                                             *)
(***************************************************************************)
\* The session x is between calls.
Idle(x) == pc[x] = "idle"

\* The Params object the client c / the server sv points to.
ClientParams(c) == params[clients[c].params]
ServerParams(sv) == params[servers[sv].params]

\* The integer a byte slice spells (nil spells 0, as SetBytes(nil) does).
SetBytes(sl) == BytesToInt(sl.bytes)

\* C1: after Server.GenerateB on a session holding the verifier v, the
\* returned and stored B is (k*v + g^b) mod N, for the stored b and
\* k = H(N | PAD(g)).
C1_HelloMasksVerifier ==
    \A sv \in ServerIds :
        (Idle(sv) /\ ret[sv].op = "GenerateB") =>
            LET p == ServerParams(sv)
                srv == servers[sv]
            IN  /\ ret[sv].out = << srv.B >>
                /\ srv.B = Slice(IntToBytes(
                       (Multiplier(p) * SetBytes(srv.v) + Exp(p.g, SetBytes(srv.b), p.N))
                           % p.N))

\* C2: between calls, a client has neither a nor A, or its A is the bytes of
\* g^a mod N for its a and its params; and what GenerateA returned is the
\* stored A.
C2_ClientPublicValue ==
    \A c \in ClientIds :
        (Idle(c) /\ clients[c].params # NullPtr) =>
            LET p == ClientParams(c)
                cl == clients[c]
            IN  /\ \/ ~cl.a.set /\ ~cl.A.set
                   \/ /\ cl.a.set
                      /\ cl.A = Slice(IntToBytes(Exp(p.g, SetBytes(cl.a), p.N)))
                /\ ret[c].op = "GenerateA" => ret[c].out = << cl.A >>

\* A client that ran GenerateA on a non-zero exponent and then changed
\* its credentials.
C2_Witness ==
    \E c \in ClientIds :
        /\ Idle(c)
        /\ clients[c].a.set /\ SetBytes(clients[c].a) > 1
        /\ clients[c].A.set /\ SetBytes(clients[c].A) > 1
        /\ ret[c].op = "SetCredentials"

\* The Server Hello the client c holds is the server sv's, relayed
\* unchanged, and sv's verifier was registered with c's credentials.
HonestPair(c, sv) ==
    /\ clients[c].params # NullPtr
    /\ clients[c].params = servers[sv].params
    /\ Idle(c) /\ Idle(sv)
    /\ clients[c].A.set
    /\ servers[sv].B.set
    /\ inbox[c] = [B |-> servers[sv].B, s |-> servers[sv].s]
    /\ servers[sv].v = Slice(Verifier(ClientParams(c), servers[sv].s.bytes,
                                      clients[c].I.bytes, clients[c].P.bytes))

\* C3: in an honest run of the authentication path, the client's SessionKey
\* yields a premaster secret S and a key K, and its S is the server's S.
C3_HonestRunAgrees ==
    [][\A c \in ClientIds, sv \in ServerIds :
          (SessionKey(c) /\ HonestPair(c, sv)) =>
              /\ ret'[c].err = "none"
              /\ ret'[c].out[1].set
              /\ ret'[c].out[2].set
              /\ ret'[c].out[1] = servers'[sv].S]_vars

\* The client c holds a Server Hello whose B is congruent to 0 modulo N.
ZeroHello(c) ==
    /\ inbox[c].B.set
    /\ SetBytes(inbox[c].B) % ClientParams(c).N = 0

\* C4: SessionKey on a client that received a B congruent to 0 modulo N
\* aborts with ZeroPublicValue, and returns neither S nor K.
C4_ZeroPublicValueAborts ==
    [][\A c \in ClientIds :
          (SessionKey(c) /\ ZeroHello(c)) =>
              /\ ret'[c].err = "ZeroPublicValue"
              /\ ~ret'[c].out[1].set
              /\ ~ret'[c].out[2].set]_vars

\* C5: SessionKey on a client on which GenerateA has not run fails with
\* InvalidSessionState.
C5_SessionKeyNeedsKeyExchange ==
    [][\A c \in ClientIds :
          (SessionKey(c) /\ ~clients[c].a.set /\ ~clients[c].A.set) =>
              ret'[c].err = "InvalidSessionState"]_vars

\* C6: every GenerateA, a second one on the same session included, reads
\* the random source anew and overwrites a with what it read, and then
\* overwrites A with the bytes of g^a mod N for that a.
C6_KeyExchangeRegenerates ==
    [][\A c \in ClientIds :
          /\ (pc[c] = "idle" /\ pc'[c] = "GenerateA") =>
                /\ rand'.reads = rand.reads + 1
                /\ rand'.out \in getRandomBytes(3)
                /\ clients'[c].a = Slice(rand'.out)
          /\ (pc[c] = "GenerateA" /\ pc'[c] = "idle") =>
                /\ clients'[c].a = clients[c].a
                /\ clients'[c].A =
                      Slice(IntToBytes(Exp(ClientParams(c).g,
                                           SetBytes(clients[c].a),
                                           ClientParams(c).N)))
                /\ ret'[c].out = << clients'[c].A >>]_vars

\* A client whose second GenerateA has returned: it is the only session
\* that has read the random source, and it has read it twice.
C6_Witness ==
    \E c \in ClientIds :
        /\ Idle(c)
        /\ ret[c].op = "GenerateA"
        /\ rand.reads = 2
        /\ clients[c].a = Slice(rand.out)
        /\ \A d \in ClientIds \ {c} : ~clients[d].a.set
        /\ \A sv \in ServerIds : ~servers[sv].b.set

\* C7: SessionKey leaves the client's I, P, a, A and params as they were,
\* and called again with the same relayed values on the session it left, it
\* returns what it returned before.
C7_SessionKeyIdempotent ==
    [][\A c \in ClientIds :
          SessionKey(c) =>
              /\ clients'[c] = clients[c]
              /\ params' = params
              /\ ret[c].op = "SessionKey" => ret'[c] = ret[c]]_vars

\* A client that ran the key exchange, holds a Server Hello and has
\* called SessionKey (and may call it again).
C7_Witness ==
    \E c \in ClientIds :
        /\ Idle(c)
        /\ ret[c].op = "SessionKey"
        /\ clients[c].a.set /\ clients[c].A.set
        /\ inbox[c].B.set

\* C8: the exponents are at least 256 bits long: a stored a, and a stored
\* b, has at least 32 bytes.
C8_ExponentsAtLeast256Bits ==
    /\ \A c \in ClientIds :
          clients[c].a.set => 8 * Len(clients[c].a.bytes) >= 256
    /\ \A sv \in ServerIds :
          servers[sv].b.set => 8 * Len(servers[sv].b.bytes) >= 256

\* C9: whatever the sessions do, every Params object keeps the N, g and H
\* it was constructed with.
C9_ParamsImmutable ==
    /\ params["default"] = NewDefaultParams
    /\ params["custom"] \in CustomParams

\* Both sides have run their exchange on the custom params, and the client
\* has set credentials and called SessionKey.
C9_Witness ==
    \E c \in ClientIds, sv \in ServerIds :
        /\ clients[c].params = "custom" /\ servers[sv].params = "custom"
        /\ Idle(c) /\ Idle(sv)
        /\ clients[c].A.set /\ servers[sv].B.set
        /\ ret[c].op = "SessionKey"

\* C10: under every interleaving of GenerateA and GenerateB calls of
\* sessions sharing one Params, a step of a call writes only the exponent
\* and public value of its own session (every other session, the relayed
\* values and the shared Params stay as they were, so that no secret lands
\* where another session reads), and each session whose call has returned
\* holds the public value of its own exponent.
C10_SessionsDoNotInterfere ==
    /\ [][\A x \in Sessions :
            (pc'[x] # pc[x]) =>
                /\ params' = params
                /\ inbox' = inbox
                /\ \A y \in Sessions \ {x} : pc'[y] = pc[y] /\ ret'[y] = ret[y]
                /\ \A c \in ClientIds \ {x} : clients'[c] = clients[c]
                /\ \A sv \in ServerIds \ {x} : servers'[sv] = servers[sv]
                /\ x \in ClientIds =>
                      [clients'[x] EXCEPT !.a = clients[x].a,
                                          !.A = clients[x].A] = clients[x]
                /\ x \in ServerIds =>
                      [servers'[x] EXCEPT !.b = servers[x].b,
                                          !.B = servers[x].B] = servers[x]]_vars
    /\ [](\A c \in ClientIds :
            (Idle(c) /\ ret[c].op = "GenerateA") =>
                clients[c].A = Slice(IntToBytes(Exp(ClientParams(c).g,
                                                    SetBytes(clients[c].a),
                                                    ClientParams(c).N))))
    /\ [](\A sv \in ServerIds :
            (Idle(sv) /\ ret[sv].op = "GenerateB") =>
                servers[sv].B = Slice(IntToBytes(Exp(ServerParams(sv).g,
                                                     SetBytes(servers[sv].b),
                                                     ServerParams(sv).N))))

\* Two clients were inside GenerateA at once, a server sharing their
\* Params: c read its exponent first, d read a different one after it and
\* has returned, and c has not yet stored its public value.
C10_Witness ==
    \E c \in ClientIds, d \in ClientIds, sv \in ServerIds :
        /\ c # d
        /\ clients[c].params = clients[d].params
        /\ clients[c].params = servers[sv].params
        /\ pc[c] = "GenerateA" /\ ~clients[c].A.set
        /\ Idle(d) /\ ret[d].op = "GenerateA"
        /\ clients[c].a # clients[d].a
        /\ rand.out = clients[d].a.bytes
        /\ rand.reads = 2

\* ---------------------------------------------------------------------
\* Abort, registration, construction order, random source (C11 .. C14)
\* ---------------------------------------------------------------------

Registration(c) ==
    /\ clients[c].params # NullPtr
    /\ pc[c] = "idle"
    /\ rand.reads < MaxReads
    /\ \E s \in getRandomBytes(3) :
          /\ rand' = [reads |-> rand.reads + 1, out |-> s]
          /\ ret' = [ret EXCEPT ![c] =
                 Returned("Registration",
                     << Slice(s),
                        Slice(Verifier(params[clients[c].params], s,
                                       clients[c].I.bytes,
                                       clients[c].P.bytes)) >>)]
    /\ UNCHANGED <<params, clients, servers, pc, inbox, zeroSeen, derived>>

\* One client alone, with every operation of the Client and two user names.
RegisteringClientStep(c) ==
    \/ \E I \in UserNames, P \in Passwords : NewClient(c, I, P)
    \/ \E I \in UserNames, P \in Passwords :
          NewClientWithParams(c, "custom", I, P)
    \/ \E I \in UserNames, P \in Passwords : SetCredentials(c, I, P)
    \/ GenerateA_draw(c)
    \/ GenerateA_exp(c)
    \/ SessionKey(c)
    \/ Registration(c)

NextClient == \E c \in SeqClients : RegisteringClientStep(c)

SpecClient == Init /\ [][NextClient]_vars

ReadmeStandardServer(sv, s, v) == NewServerWithParams(sv, "custom", s, v)

\* The README's simplified path, step 5: server := srp.NewServer(v, s).
ReadmeSimplifiedServer(sv, s, v) == NewServer(sv, v, s)

\* One server built as either README path shows, then its hello.
ReadmeServerStep(sv) ==
    \/ \E s \in Salts, v \in Verifiers(params["custom"]) :
          ReadmeStandardServer(sv, s, v)
    \/ \E s \in Salts, v \in Verifiers(params["default"]) :
          ReadmeSimplifiedServer(sv, s, v)
    \/ GenerateB_draw(sv)
    \/ GenerateB_exp(sv)

NextReadme == \E sv \in ServerIds : ReadmeServerStep(sv)

SpecReadme == Init /\ [][NextReadme]_vars

\* C13: a server built as the README's standard path shows,
\* NewServerWithParams(params, s, v), holds v as its verifier and s as its
\* salt, as a server built with NewServer(v, s) does.
C13_ReadmeServerHoldsVerifier ==
    [][\A sv \in ServerIds, s \in Salts :
          \A v \in Verifiers(params["custom"]) :
              ReadmeStandardServer(sv, s, v) =>
                  /\ servers'[sv].v = Slice(v)
                  /\ servers'[sv].s = Slice(s)]_vars

\* What getRandomBytes(n) may hand back when the random source fails and
\* it returns all the same: it has one result and no error, so the caller
\* gets a nil slice or the buffer as allocated, n zero bytes.
FailedRead(n) == { Nil, Slice(LeftPad(n, <<>>)) }

\* GenerateA, the whole call, when the read of the random source fails:
\* either getRandomBytes panics and the call never returns, or c.a takes
\* what it handed back and the call goes on to the exponentiation and
\* returns c.A. GenerateA() []byte has no error result.
GenerateA_failing(c) ==
    /\ clients[c].params # NullPtr
    /\ pc[c] = "idle"
    /\ rand.reads < MaxReads
    /\ \/ /\ clients' = clients
          /\ rand' = [reads |-> rand.reads + 1, out |-> <<>>]
          /\ ret' = [ret EXCEPT ![c] =
                        [op |-> "GenerateA", out |-> <<>>, err |-> "panic"]]
       \/ \E r \in FailedRead(3) :
             /\ clients' = [clients EXCEPT ![c] =
                    GenerateA_A([clients[c] EXCEPT !.a = r],
                                params[clients[c].params])]
             /\ rand' = [reads |-> rand.reads + 1, out |-> r.bytes]
             /\ ret' = [ret EXCEPT ![c] =
                           Returned("GenerateA", <<clients'[c].A>>)]
    /\ UNCHANGED <<params, servers, pc, inbox, zeroSeen, derived>>

\* GenerateB, the whole call, when the read of the random source fails.
GenerateB_failing(sv) ==
    /\ servers[sv].params # NullPtr
    /\ pc[sv] = "idle"
    /\ rand.reads < MaxReads
    /\ \/ /\ servers' = servers
          /\ rand' = [reads |-> rand.reads + 1, out |-> <<>>]
          /\ ret' = [ret EXCEPT ![sv] =
                        [op |-> "GenerateB", out |-> <<>>, err |-> "panic"]]
       \/ \E r \in FailedRead(3) :
             /\ servers' = [servers EXCEPT ![sv] =
                    GenerateB_B([servers[sv] EXCEPT !.b = r],
                                params[servers[sv].params])]
             /\ rand' = [reads |-> rand.reads + 1, out |-> r.bytes]
             /\ ret' = [ret EXCEPT ![sv] =
                           Returned("GenerateB", <<servers'[sv].B>>)]
    /\ UNCHANGED <<params, clients, pc, inbox, zeroSeen, derived>>

\* One client and one server whose random source may fail on any read.
NextFault ==
    \/ \E c \in SeqClients : ClientStep(c) \/ GenerateA_failing(c)
    \/ \E sv \in SeqServers : ServerStep(sv) \/ GenerateB_failing(sv)

SpecFault == Init /\ [][NextFault]_vars

\* C14: when the random source fails, GenerateA and GenerateB return an
\* explicit RandomSourceFailure and leave no exponent and no public value
\* set.
C14_RandomFailureIsExplicit ==
    [][/\ \A c \in ClientIds :
             GenerateA_failing(c) =>
                 /\ ret'[c].err = "RandomSourceFailure"
                 /\ ~clients'[c].a.set
                 /\ ~clients'[c].A.set
       /\ \A sv \in ServerIds :
             GenerateB_failing(sv) =>
                 /\ ret'[sv].err = "RandomSourceFailure"
                 /\ ~servers'[sv].b.set
                 /\ ~servers'[sv].B.set]_vars

\* ---------------------------------------------------------------------
\* Password sensitivity, evidence, clearing of secrets (C15 .. C17)
\* ---------------------------------------------------------------------

\* The client c and the server sv ran the authentication path honestly,
\* except that sv's verifier was registered with another password than the
\* one c holds (same identity, same salt), and is not c's verifier.
WrongPasswordPair(c, sv) ==
    /\ clients[c].params # NullPtr
    /\ clients[c].params = servers[sv].params
    /\ Idle(c) /\ Idle(sv)
    /\ clients[c].A.set
    /\ servers[sv].B.set
    /\ inbox[c] = [B |-> servers[sv].B, s |-> servers[sv].s]
    /\ \E P0 \in Passwords \ {clients[c].P.bytes} :
          servers[sv].v = Slice(Verifier(ClientParams(c), servers[sv].s.bytes,
                                         clients[c].I.bytes, P0))
    /\ servers[sv].v # Slice(Verifier(ClientParams(c), servers[sv].s.bytes,
                                      clients[c].I.bytes, clients[c].P.bytes))

\* C15: when the client's password is not the one the server's verifier
\* was registered with, the K the client's SessionKey yields differs from
\* the server's K.
C15_WrongPasswordChangesK ==
    [][\A c \in ClientIds, sv \in ServerIds :
          (SessionKey(c) /\ WrongPasswordPair(c, sv)) =>
              ret'[c].out[2] # derived'[sv].K]_vars

\* The documented server side of the key derivation and of the evidence
\* messages: server.SessionKey(A), server.VerifyEvidence(M1) and
\* server.EvidenceMessage(), which the README calls and the Server of
\* server.go does not have.

\* Bitwise exclusive or of two bytes, and of two digests of equal length.
RECURSIVE ByteXor(_, _)
ByteXor(a, b) ==
    IF a = 0 /\ b = 0 THEN 0
    ELSE (((a % 2) + (b % 2)) % 2) + 2 * ByteXor(a \div 2, b \div 2)

Xor(xs, ys) == [i \in 1 .. Len(xs) |-> ByteXor(xs[i], ys[i])]

\* The hash input of u, and u := H(PAD(A) | PAD(B)).
UInput(p, A, B) == PAD(p, A) \o PAD(p, B)
ComputeU(p, A, B) == BytesToInt(H(p.H, UInput(p, A, B)))

\* M1 = H(H(N) XOR H(g) | H(U) | s | A | B | K)
ExpectedM1(p, U, s, A, B, K) ==
    H(p.H, Xor(H(p.H, IntToBytes(p.N)), H(p.H, IntToBytes(p.g)))
               \o H(p.H, U) \o s \o A \o B \o K)

\* M2 := H(A | M1 | K)
ExpectedM2(p, A, M1, K) == H(p.H, A \o M1 \o K)

\* The A values a server may receive: those of honest clients, and the
\* values congruent to 0 modulo N.
ClientPublicValues(p) ==
    { IntToBytes(Exp(p.g, a, p.N)) : a \in RandomValues }
        \cup { IntToBytes(0), IntToBytes(p.N) }

\* S := (A * v^u)^b % N, the base being one value before it is raised.
ServerPremaster(A, v, u, b, N) ==
    CHOOSE S \in { Exp(base, b, N) : base \in { A * Exp(v, u, N) } } : TRUE

\* A server session that reached a terminal state, its secrets cleared.
Terminal(srv) == [srv EXCEPT !.b = Nil, !.S = Nil]

\* server.SessionKey(A): abort if A % N = 0; u := H(PAD(A) | PAD(B)),
\* abort if u = 0; S := (A * v^u)^b % N; K := H(S).
Server_SessionKey(sv, A) ==
    /\ servers[sv].params # NullPtr
    /\ pc[sv] = "idle"
    /\ servers[sv].B.set
    /\ derived[sv].state = "New"
    /\ LET p == params[servers[sv].params]
           u == ComputeU(p, A, servers[sv].B.bytes)
           S == ServerPremaster(BytesToInt(A), BytesToInt(servers[sv].v.bytes),
                                u, BytesToInt(servers[sv].b.bytes), p.N)
           K == H(p.H, IntToBytes(S))
       IN  IF BytesToInt(A) % p.N = 0 \/ u = 0
           THEN /\ servers' = [servers EXCEPT ![sv] = Terminal(servers[sv])]
                /\ derived' = [derived EXCEPT ![sv].state = "Aborted"]
                /\ ret' = [ret EXCEPT ![sv] =
                       [op |-> "SessionKey", out |-> <<>>,
                        err |-> IF u = 0 /\ BytesToInt(A) % p.N # 0
                                THEN "ZeroScramblingParameter"
                                ELSE "ZeroPublicValue"]]
           ELSE /\ servers' = [servers EXCEPT ![sv].S = Slice(IntToBytes(S))]
                /\ derived' = [derived EXCEPT ![sv].A = Slice(A),
                                              ![sv].K = Slice(K),
                                              ![sv].state = "SessionKeyDerived"]
                /\ ret' = [ret EXCEPT ![sv] =
                              Returned("SessionKey", <<Slice(K)>>)]
    /\ UNCHANGED <<params, clients, pc, rand, inbox, zeroSeen>>

\* server.VerifyEvidence(M1), U being the identity of the Client Hello:
\* abort if M1 is not the expected M1.
VerifyEvidence(sv, U, M1) ==
    /\ servers[sv].params # NullPtr
    /\ pc[sv] = "idle"
    /\ derived[sv].state = "SessionKeyDerived"
    /\ LET p == params[servers[sv].params]
           expected == ExpectedM1(p, U, servers[sv].s.bytes,
                                  derived[sv].A.bytes, servers[sv].B.bytes,
                                  derived[sv].K.bytes)
       IN  IF M1 = expected
           THEN /\ derived' = [derived EXCEPT ![sv].M1 = Slice(M1),
                                              ![sv].state = "EvidenceVerified"]
                /\ servers' = servers
                /\ ret' = [ret EXCEPT ![sv] = Returned("VerifyEvidence", <<>>)]
           ELSE /\ derived' = [derived EXCEPT ![sv].K = Nil,
                                              ![sv].state = "Aborted"]
                /\ servers' = [servers EXCEPT ![sv] = Terminal(servers[sv])]
                /\ ret' = [ret EXCEPT ![sv] =
                       [op |-> "VerifyEvidence", out |-> <<>>,
                        err |-> "EvidenceMismatch"]]
    /\ UNCHANGED <<params, clients, pc, rand, inbox, zeroSeen>>

\* A faulty readiness test: the evidence message is given at any time.
EvidenceMessage_ready_always(d) == TRUE

\* EvidenceMessage may run: VerifyEvidence has succeeded on the session.
EvidenceMessage_ready(d) == d.state = "EvidenceVerified"

\* server.EvidenceMessage(): M2 := H(A | M1 | K), for a verified session;
\* the session is then authenticated and its secrets are cleared.
EvidenceMessage(sv) ==
    /\ servers[sv].params # NullPtr
    /\ pc[sv] = "idle"
    /\ derived[sv].state \notin {"Authenticated", "Aborted"}
    /\ IF EvidenceMessage_ready(derived[sv])
       THEN LET M2 == ExpectedM2(params[servers[sv].params],
                                 derived[sv].A.bytes, derived[sv].M1.bytes,
                                 derived[sv].K.bytes)
            IN  /\ derived' = [derived EXCEPT ![sv].M2 = Slice(M2),
                                              ![sv].K = Nil,
                                              ![sv].state = "Authenticated"]
                /\ servers' = [servers EXCEPT ![sv] = Terminal(servers[sv])]
                /\ ret' = [ret EXCEPT ![sv] =
                              Returned("EvidenceMessage", <<Slice(M2)>>)]
       ELSE /\ UNCHANGED <<derived, servers>>
            /\ ret' = [ret EXCEPT ![sv] =
                   [op |-> "EvidenceMessage", out |-> <<>>,
                    err |-> "InvalidSessionState"]]
    /\ UNCHANGED <<params, clients, pc, rand, inbox, zeroSeen>>

\* The M1 values a server may be sent: the expected one for a user name it
\* knows, and one that matches nothing.
EvidenceValues(sv) ==
    { ExpectedM1(params[servers[sv].params], U, servers[sv].s.bytes,
                 derived[sv].A.bytes, servers[sv].B.bytes,
                 derived[sv].K.bytes) : U \in Identities } \cup { <<255>> }

\* One server with the documented operations after its hello.
EvidenceServerStep(sv) ==
    \/ ServerStep(sv)
    \/ /\ servers[sv].params # NullPtr
       /\ \E A \in ClientPublicValues(params[servers[sv].params]) :
             Server_SessionKey(sv, A)
    \/ /\ servers[sv].params # NullPtr
       /\ \E U \in Identities, M1 \in EvidenceValues(sv) :
             VerifyEvidence(sv, U, M1)
    \/ EvidenceMessage(sv)

NextEvidence == \E sv \in SeqServers : EvidenceServerStep(sv)

SpecEvidence == Init /\ [][NextEvidence]_vars

Cleared(sl) == \A i \in 1 .. Len(sl.bytes) : sl.bytes[i] = 0

\* C17: a session that reached a terminal state keeps no secret material:
\* a client whose SessionKey ran on a B congruent to 0 modulo N (which is
\* to abort it) holds neither its password nor its exponent any more.
C17_SecretsClearedAtTerminal ==
    \A c \in zeroSeen :
        /\ Cleared(clients[c].P)
        /\ Cleared(clients[c].a)

\* ---------------------------------------------------------------------
\* Encodings and frames (C18 .. C20)
\* ---------------------------------------------------------------------

\* The documented PAD and the two hash inputs built with it, as calls a
\* server makes on the group q: each returns the group's N first, then the
\* integers it was given, then the bytes it built.
Pad_call(sv, q, x) ==
    /\ ret' = [ret EXCEPT ![sv] =
           Returned("PAD", << Slice(IntToBytes(params[q].N)),
                              Slice(IntToBytes(x)),
                              Slice(PAD(params[q], IntToBytes(x))) >>)]
    /\ UNCHANGED <<params, clients, servers, pc, rand, inbox, zeroSeen, derived>>

KInput_call(sv, q) ==
    /\ ret' = [ret EXCEPT ![sv] =
           Returned("KInput", << Slice(IntToBytes(params[q].N)),
                                 Slice(IntToBytes(params[q].g)),
                                 Slice(KInput(params[q])) >>)]
    /\ UNCHANGED <<params, clients, servers, pc, rand, inbox, zeroSeen, derived>>

UInput_call(sv, q, A, B) ==
    /\ ret' = [ret EXCEPT ![sv] =
           Returned("UInput", << Slice(IntToBytes(params[q].N)),
                                 Slice(IntToBytes(A)), Slice(IntToBytes(B)),
                                 Slice(UInput(params[q], IntToBytes(A),
                                              IntToBytes(B))) >>)]
    /\ UNCHANGED <<params, clients, servers, pc, rand, inbox, zeroSeen, derived>>

\* The public values at the ends and at the byte boundary of [0, N).
EdgeValues(q) == { x \in {0, 1, 255, 256, params[q].N - 1} : x < params[q].N }

NextPad ==
    \E sv \in SeqServers, q \in ParamsPtrs :
        \/ \E x \in 0 .. params[q].N - 1 : Pad_call(sv, q, x)
        \/ KInput_call(sv, q)
        \/ \E A \in EdgeValues(q), B \in EdgeValues(q) : UInput_call(sv, q, A, B)

SpecPad == Init /\ [][NextPad]_vars

Minimal(bs) == Len(bs) = 0 \/ bs[1] # 0

\* C19: the public value GenerateA (GenerateB) returned is a minimal
\* big-endian encoding, and it decodes to g^a mod N (g^b mod N) for the
\* session's exponent.
C19_PublicValueEncoding ==
    /\ \A c \in ClientIds :
          (Idle(c) /\ ret[c].op = "GenerateA") =>
              LET p == ClientParams(c)
                  A == ret[c].out[1].bytes
              IN  /\ Minimal(A)
                  /\ BytesToInt(A) = Exp(p.g, BytesToInt(clients[c].a.bytes), p.N)
    /\ \A sv \in ServerIds :
          (Idle(sv) /\ ret[sv].op = "GenerateB") =>
              LET p == ServerParams(sv)
                  B == ret[sv].out[1].bytes
              IN  /\ Minimal(B)
                  /\ BytesToInt(B) = Exp(p.g, BytesToInt(servers[sv].b.bytes), p.N)

\* GenerateA returned a one-byte public value on the group whose N takes
\* two bytes, for an exponent above 1.
C19_Witness ==
    \E c \in ClientIds :
        /\ Idle(c)
        /\ ret[c].op = "GenerateA"
        /\ clients[c].params = "custom"
        /\ BytesToInt(clients[c].a.bytes) > 1
        /\ Len(ret[c].out[1].bytes) = 1
        /\ Len(IntToBytes(ClientParams(c).N)) = 2

\* C20: SetCredentials(I, P) makes the bytes of I and P the session's
\* identity and password and returns the new identity; the session's
\* params, a and A, and the Params objects, are as before the call.
C20_SetCredentialsFrame ==
    [][\A c \in ClientIds, I \in UserNames, P \in Passwords :
          SetCredentials(c, I, P) =>
              /\ clients'[c].I = Slice(I)
              /\ clients'[c].P = Slice(P)
              /\ ret'[c] = Returned("SetCredentials", <<Slice(I)>>)
              /\ clients'[c].params = clients[c].params
              /\ clients'[c].a = clients[c].a
              /\ clients'[c].A = clients[c].A
              /\ params' = params]_vars

\* SetCredentials returned the second user name on a client that holds a
\* public value above 1 from an earlier GenerateA.
C20_Witness ==
    \E c \in ClientIds :
        /\ ret[c] = Returned("SetCredentials", <<Slice(<<98>>)>>)
        /\ clients[c].I.bytes = <<98>>
        /\ clients[c].P.bytes = <<113, 119>>
        /\ clients[c].A.set /\ BytesToInt(clients[c].A.bytes) > 1
        /\ clients[c].a.set

\* ---------------------------------------------------------------------
\* GenerateB's frame, range of the public values, exponents (C21 .. C23)
\* ---------------------------------------------------------------------

\* C21: each step of GenerateB on a server leaves that server's v, s, S
\* and params pointer, the Params objects, every other server and every
\* client as they were: the call changes only the session's b and B.
C21_GenerateBFrame ==
    [][\A sv \in ServerIds :
          (GenerateB_draw(sv) \/ GenerateB_exp(sv)) =>
              /\ servers'[sv].v = servers[sv].v
              /\ servers'[sv].s = servers[sv].s
              /\ servers'[sv].S = servers[sv].S
              /\ servers'[sv].params = servers[sv].params
              /\ params' = params
              /\ clients' = clients
              /\ \A other \in ServerIds \ {sv} :
                    servers'[other] = servers[other]]_vars

\* GenerateB returned on a server that holds a verifier, a salt and, from
\* an earlier key derivation, a premaster secret.
C21_Witness ==
    \E sv \in ServerIds :
        /\ Idle(sv)
        /\ ret[sv].op = "GenerateB"
        /\ servers[sv].v.set /\ servers[sv].s.set
        /\ servers[sv].S.set
        /\ servers[sv].b.set /\ BytesToInt(servers[sv].b.bytes) > 1
        /\ ret[sv].out = << servers[sv].B >>

\* N is a prime and 1 < g < N-1.
IsPrime(n) == n > 1 /\ \A d \in 2 .. n - 1 : n % d # 0
GoodGroup(p) == IsPrime(p.N) /\ 1 < p.g /\ p.g < p.N - 1

C23_ExponentNeverZero ==
    /\ \A c \in ClientIds :
          Idle(c) =>
              /\ clients[c].a.set => SetBytes(clients[c].a) # 0
              /\ ret[c].op = "GenerateA" => SetBytes(ret[c].out[1]) # 1
    /\ \A sv \in ServerIds :
          Idle(sv) =>
              /\ servers[sv].b.set => SetBytes(servers[sv].b) # 0
              /\ ret[sv].op = "GenerateB" => SetBytes(ret[sv].out[1]) # 1

====
